---- MODULE Spec2Model ----
(***************************************************************************)
(* Model of the fund analysis core:                                        *)
(*   - FundAnalysisPipeline (src/src/core/fund_pipeline.py): the fleet run *)
(*     over a list of fund codes on a ThreadPoolExecutor, the per-fund     *)
(*     pipeline process_single_fund and the summary notification;          *)
(*   - FundTrendAnalyzer (src/src/fund_analyzer.py): moving averages,      *)
(*     trend, pullback and signal scoring of one NAV series.               *)
(* Spec is the fleet run, FairSpec the fleet run with the fairness of the  *)
(* thread pool, AnalyzerSpec one call of FundTrendAnalyzer.analyze,        *)
(* FetcherSpec the concurrent calls of FundDataFetcher.get_fund_info       *)
(* (src/data_provider/fund_fetcher.py) made by the worker threads on the   *)
(* pipeline's one fetcher object.                                          *)
(***************************************************************************)
EXTENDS Integers, Sequences, FiniteSets, TLC

VARIABLES
    fund_codes,     \* run's argument fund_codes
    config,         \* self.config: stock_list, single_stock_notify
    max_workers,    \* self.max_workers
    dry_run,        \* run's argument dry_run
    send_notification, \* run's argument send_notification
    runPc,          \* position of the thread that called run
    submitted,      \* the codes handed to executor.submit, in order
    task,           \* per submitted code: the state of its process_single_fund
    snapshot,       \* as_completed: futures already finished when it was called
    finished,       \* as_completed: futures finished later, in finishing order
    results,        \* run's local list results
    report,         \* the content passed to notifier.send by the summary
    yielded,        \* as_completed: futures already handed to the loop
    nsummary,       \* number of summary notifications attempted
    retval          \* what run returned

pipeVars == <<fund_codes, config, max_workers, dry_run, send_notification,
              runPc, submitted, task, snapshot, finished, results, report,
              yielded, nsummary, retval>>

VARIABLES
    df,             \* analyze's argument df: the nav column in date order
    performance,    \* analyze's argument performance
    result,         \* the FundAnalysisResult being built
    anPc            \* position inside analyze

anVars == <<df, performance, result, anPc>>

VARIABLES
    ak,             \* the provider module: installed, and the interfaces it has
    infoCall,       \* per worker thread: its call of get_fund_info
    fund_list_df,   \* self._fund_list_df of the pipeline's fetcher
    cacheReaders,   \* the threads that have read self._fund_list_df
    cacheWriters    \* the threads that have assigned self._fund_list_df

ftVars == <<ak, infoCall, fund_list_df, cacheReaders, cacheWriters>>

vars == <<pipeVars, anVars, ftVars>>

----------------------------------------------------------------------------
(* Bounds of the fleet model *)

MaxFunds == 2
MaxWorkersBound == 2

\* the lists of fund codes a caller passes: up to n codes, either all
\* different from their neighbours or one code repeated (a list may name a
\* fund twice)
CodeLists(n) ==
    {[i \in 1..k |-> IF alt /\ i % 2 = 0 THEN "005827" ELSE "000001"] :
        k \in 0..n, alt \in BOOLEAN}

\* signal scores a fund's analysis may come out with in the fleet model
Scores == {1, 2}

NoResult == [idx |-> 0, code |-> "", signal_score |-> 0]

Range(s) == {s[i] : i \in 1..Len(s)}

----------------------------------------------------------------------------
(* FundAnalysisPipeline *)

NewTask == [pc |-> "queued", calls |-> <<>>, fail |-> "none", result |-> NoResult]

Terminated(t) == t.pc \in {"done", "failed"}

InFlight(t) == t.pc \in {"validating", "fetching", "performance", "analyzing",
                         "notifying", "hung"}

NumInFlight == Cardinality({i \in 1..Len(task) : InFlight(task[i])})

PipeInit ==
    /\ fund_codes \in CodeLists(MaxFunds)
    /\ config \in [stock_list : {<<>>, <<"005827">>},
                   single_stock_notify : BOOLEAN]
    /\ max_workers \in 1..MaxWorkersBound
    /\ dry_run \in BOOLEAN
    /\ send_notification \in BOOLEAN
    /\ runPc = "start"
    /\ submitted = <<>>
    /\ task = <<>>
    /\ snapshot = {}
    /\ finished = <<>>
    /\ results = <<>>
    /\ report = <<>>
    /\ yielded = {}
    /\ nsummary = 0
    /\ retval = <<>>

\* run, lines 86-107: choose the list, return early, or submit every code
EffectiveCodes == IF fund_codes = <<>> THEN config.stock_list ELSE fund_codes

RunStart ==
    /\ runPc = "start"
    /\ IF EffectiveCodes = <<>> \/ dry_run
       THEN /\ runPc' = "returned"
            /\ retval' = <<>>
            /\ UNCHANGED <<submitted, task>>
       ELSE /\ runPc' = "submitted"
            /\ submitted' = EffectiveCodes
            /\ task' = [i \in 1..Len(EffectiveCodes) |-> NewTask]
            /\ UNCHANGED retval
    /\ UNCHANGED <<fund_codes, config, max_workers, dry_run, send_notification,
                   snapshot, finished, results, report, yielded, nsummary>>

\* the parts of the state a worker thread never writes
mainUnchanged == UNCHANGED <<fund_codes, config, max_workers, dry_run,
                             send_notification, runPc, submitted, snapshot,
                             results, report, yielded, nsummary, retval>>

\* mutant of WorkerAvailable: a worker thread is not reused after its call
WorkerAvailableNoReuse ==
    Cardinality({i \in 1..Len(task) : task[i].pc # "queued"}) < max_workers

\* mutant of WorkerAvailable: the pool starts one thread too many
WorkerAvailableOffByOne == NumInFlight <= max_workers

\* ThreadPoolExecutor(max_workers=self.max_workers): a queued call is taken
\* only by a worker thread that is not running another call
WorkerAvailable == NumInFlight < max_workers

\* the executor's work queue is first in, first out
NextQueued(i) ==
    /\ task[i].pc = "queued"
    /\ \A j \in 1..(i - 1) : task[j].pc # "queued"

\* a call of process_single_fund moves to t2; a future that finishes after
\* as_completed was called is queued for the loop in finishing order
SetTask(i, t2) ==
    /\ task' = [task EXCEPT ![i] = t2]
    /\ finished' = IF Terminated(t2) /\ runPc = "collecting"
                   THEN Append(finished, i) ELSE finished
    /\ mainUnchanged

\* a collaborator call made by process_single_fund, in call order
Called(t, name) == [t EXCEPT !.calls = Append(@, name)]

\* mutant of Raised: the except branch keeps the result built so far
RaisedKeepsResult(t) == [t EXCEPT !.pc = "failed", !.fail = "exception"]

\* lines 74-76: any exception ends the pipeline with no result
Raised(t) == [t EXCEPT !.pc = "failed", !.fail = "exception", !.result = NoResult]

\* mutant of AfterInfo: the early return on missing metadata is lost
AfterInfoNoReturn(t, out) ==
    IF out = "ok"
    THEN [Called(t, "get_fund_info") EXCEPT !.pc = "fetching"]
    ELSE [Called(t, "get_fund_info") EXCEPT !.pc = "fetching", !.fail = "no_info"]

\* lines 43-46; out is what get_fund_info returned: "ok" a dict, "absent"
\* None (FundDataFetcher.get_fund_info catches every exception itself)
AfterInfo(t, out) ==
    IF out = "ok"
    THEN [Called(t, "get_fund_info") EXCEPT !.pc = "fetching"]
    ELSE [Called(t, "get_fund_info") EXCEPT !.pc = "failed", !.fail = "no_info"]

\* lines 52-55; "absent" is None or an empty frame
AfterNav(t, out) ==
    IF out = "ok"
    THEN [Called(t, "get_fund_nav") EXCEPT !.pc = "performance"]
    ELSE [Called(t, "get_fund_nav") EXCEPT !.pc = "failed", !.fail = "no_nav"]

\* line 58; a dict ("ok") and None ("absent") both go on to the analysis
AfterPerformance(t, out) ==
    [Called(t, "get_fund_performance") EXCEPT !.pc = "analyzing"]

\* lines 61-72
AfterAnalyze(t, r) ==
    [Called(t, "analyze") EXCEPT
        !.result = r,
        !.pc = IF config.single_stock_notify THEN "notifying" ELSE "done"]

\* mutant of AfterNotify: the result is returned although the send raised
AfterNotifyKeepsResult(t, out) ==
    IF out = "ok"
    THEN [Called(t, "send") EXCEPT !.pc = "done"]
    ELSE [Called(t, "send") EXCEPT !.pc = "failed", !.fail = "exception"]

\* lines 70-76 and 123-127
AfterNotify(t, out) ==
    IF out = "ok"
    THEN [Called(t, "send") EXCEPT !.pc = "done"]
    ELSE Raised(Called(t, "send"))

Start(i) ==
    /\ NextQueued(i)
    /\ WorkerAvailable
    /\ SetTask(i, [task[i] EXCEPT !.pc = "validating"])

GetFundInfo(i) ==
    /\ task[i].pc = "validating"
    /\ \E out \in {"ok", "absent"} : SetTask(i, AfterInfo(task[i], out))

GetFundNav(i) ==
    /\ task[i].pc = "fetching"
    /\ \E out \in {"ok", "absent"} :
          SetTask(i, AfterNav(task[i], out))

\* the provider call inside get_fund_nav never returns
HangFundNav(i) ==
    /\ task[i].pc = "fetching"
    /\ SetTask(i, [Called(task[i], "get_fund_nav") EXCEPT !.pc = "hung"])

GetFundPerformance(i) ==
    /\ task[i].pc = "performance"
    /\ \E out \in {"ok", "absent"} :
          SetTask(i, AfterPerformance(task[i], out))

Analyze(i) ==
    /\ task[i].pc = "analyzing"
    /\ \E s \in Scores :
          SetTask(i, AfterAnalyze(task[i],
                        [idx |-> i, code |-> submitted[i], signal_score |-> s]))

SendSingleNotification(i) ==
    /\ task[i].pc = "notifying"
    /\ \E out \in {"ok", "raise"} : SetTask(i, AfterNotify(task[i], out))

\* line 109: as_completed is called: the futures finished by now are yielded
\* first, in the iteration order of a set
AsCompleted ==
    /\ runPc = "submitted"
    /\ runPc' = "collecting"
    /\ snapshot' = {i \in 1..Len(task) : Terminated(task[i])}
    /\ UNCHANGED <<fund_codes, config, max_workers, dry_run, send_notification,
                   submitted, task, finished, results, report, yielded,
                   nsummary, retval>>

\* lines 111-113
Collected(rs, r) == IF r # NoResult THEN Append(rs, r) ELSE rs

Collect ==
    /\ runPc = "collecting"
    /\ \E i \in 1..Len(task) :
          /\ \/ /\ i \in snapshot
                /\ snapshot' = snapshot \ {i}
                /\ UNCHANGED finished
             \/ /\ snapshot = {}
                /\ finished # <<>>
                /\ i = Head(finished)
                /\ finished' = Tail(finished)
                /\ UNCHANGED snapshot
          /\ yielded' = yielded \cup {i}
          /\ results' = Collected(results, task[i].result)
    /\ UNCHANGED <<fund_codes, config, max_workers, dry_run, send_notification,
                   runPc, submitted, task, report, nsummary, retval>>

\* line 148: sorted(results, key=signal_score, reverse=True), a stable sort:
\* results of equal score keep the order they have in the list
RECURSIVE InsertByScore(_, _)
InsertByScore(r, s) ==
    IF s = <<>> THEN <<r>>
    ELSE IF Head(s).signal_score >= r.signal_score
         THEN <<Head(s)>> \o InsertByScore(r, Tail(s))
         ELSE <<r>> \o s

RECURSIVE SortedByScore(_)
SortedByScore(rs) ==
    IF rs = <<>> THEN <<>>
    ELSE InsertByScore(rs[Len(rs)], SortedByScore(SubSeq(rs, 1, Len(rs) - 1)))

\* mutant of SummaryDue: the notification mode is not looked at
SummaryDueIgnoresMode == send_notification /\ results # <<>>

\* line 118
SummaryDue ==
    send_notification /\ results # <<>> /\ ~config.single_stock_notify

\* lines 118-121 and 129-158, once the loop over as_completed has ended
Finish ==
    /\ runPc = "collecting"
    /\ yielded = 1..Len(task)
    /\ IF SummaryDue
       THEN /\ report' = SortedByScore(results)
            /\ nsummary' = nsummary + 1
            /\ \E out \in {"ok", "raise"} :
                  IF out = "ok"
                  THEN runPc' = "returned" /\ retval' = results
                  ELSE runPc' = "raised" /\ UNCHANGED retval
       ELSE /\ runPc' = "returned"
            /\ retval' = results
            /\ UNCHANGED <<report, nsummary>>
    /\ UNCHANGED <<fund_codes, config, max_workers, dry_run, send_notification,
                   submitted, task, snapshot, finished, results, yielded>>

Worker(i) ==
    \/ Start(i)
    \/ GetFundInfo(i)
    \/ GetFundNav(i)
    \/ HangFundNav(i)
    \/ GetFundPerformance(i)
    \/ Analyze(i)
    \/ SendSingleNotification(i)

PipeNext ==
    \/ RunStart
    \/ AsCompleted
    \/ Collect
    \/ Finish
    \/ \E i \in 1..Len(task) : Worker(i)

----------------------------------------------------------------------------
(* FundTrendAnalyzer *)

\* Net asset values are whole numbers of thousandths; means, moving averages
\* and percentages are exact fractions <<numerator, denominator>> with a
\* positive denominator, compared by cross multiplication.
Frac(n) == <<n, 1>>

Lt(a, b) == a[1] * b[2] < b[1] * a[2]

Gt(a, b) == Lt(b, a)

Le(a, b) == ~Lt(b, a)

Ge(a, b) == ~Lt(a, b)

\* class constants, lines 132-133
CHASE_HIGH_THRESHOLD == 10
PULLBACK_BUY_THRESHOLD == -3

\* FundAnalysisResult(code=code, name=name): the dataclass defaults
DefaultResult ==
    [trend_status |-> "CONSOLIDATION", trend_strength |-> 0,
     ma5 |-> Frac(0), ma10 |-> Frac(0), ma20 |-> Frac(0), ma60 |-> Frac(0),
     current_nav |-> Frac(0),
     pullback_from_ma5 |-> Frac(0), pullback_from_ma20 |-> Frac(0),
     pullback_status |-> "",
     month_1_return |-> 0, year_1_return |-> 0,
     buy_signal |-> "WAIT", signal_score |-> 0,
     signal_reasons |-> <<>>, risk_factors |-> <<>>,
     entry_timing |-> "", stop_loss |-> <<>>, target_return |-> ""]

RECURSIVE SumRange(_, _, _)
SumRange(s, lo, hi) == IF lo > hi THEN 0 ELSE s[lo] + SumRange(s, lo + 1, hi)

\* mutant of RollingMean: an expanding mean, the window never slides
RollingMeanExpanding(navs, k) == <<SumRange(navs, 1, Len(navs)), Len(navs)>>

\* mutant of RollingMean: the sum of a short window is still divided by k
RollingMeanFullWindow(navs, k) ==
    LET n == Len(navs)
        w == IF n < k THEN n ELSE k
    IN  <<SumRange(navs, n - w + 1, n), k>>

\* rolling(window=k, min_periods=1).mean() in the last row: the mean of the
\* last k values, or of all of them when there are fewer
RollingMean(navs, k) ==
    LET n == Len(navs)
        w == IF n < k THEN n ELSE k
    IN  <<SumRange(navs, n - w + 1, n), w>>

\* _calculate_mas, then df.iloc[-1]
LatestRow(navs) ==
    [nav |-> Frac(navs[Len(navs)]),
     MA5 |-> RollingMean(navs, 5), MA10 |-> RollingMean(navs, 10),
     MA20 |-> RollingMean(navs, 20), MA60 |-> RollingMean(navs, 60)]

\* mutant of TrendOf: the nav tests are >= and <= instead of > and <
TrendOfInclusiveNav(ma5, ma10, ma20, nav) ==
    IF Gt(ma5, ma10) /\ Gt(ma10, ma20)
    THEN IF Ge(nav, ma5) THEN <<"STRONG_BULL", 3>> ELSE <<"BULL", 2>>
    ELSE IF Gt(ma5, ma10)
    THEN <<"WEAK_BULL", 1>>
    ELSE IF Lt(ma5, ma10) /\ Lt(ma10, ma20)
    THEN IF Le(nav, ma5) THEN <<"STRONG_BEAR", -3>> ELSE <<"BEAR", -2>>
    ELSE IF Lt(ma5, ma10)
    THEN <<"WEAK_BEAR", -1>>
    ELSE <<"CONSOLIDATION", 0>>

\* mutant of TrendOf: the nav test of the falling branch is turned round
TrendOfBearSwapped(ma5, ma10, ma20, nav) ==
    IF Gt(ma5, ma10) /\ Gt(ma10, ma20)
    THEN IF Gt(nav, ma5) THEN <<"STRONG_BULL", 3>> ELSE <<"BULL", 2>>
    ELSE IF Gt(ma5, ma10)
    THEN <<"WEAK_BULL", 1>>
    ELSE IF Lt(ma5, ma10) /\ Lt(ma10, ma20)
    THEN IF Gt(nav, ma5) THEN <<"STRONG_BEAR", -3>> ELSE <<"BEAR", -2>>
    ELSE IF Lt(ma5, ma10)
    THEN <<"WEAK_BEAR", -1>>
    ELSE <<"CONSOLIDATION", 0>>

\* lines 211-238: the chain of ifs over ma5, ma10, ma20 and the current nav
TrendOf(ma5, ma10, ma20, nav) ==
    IF Gt(ma5, ma10) /\ Gt(ma10, ma20)
    THEN IF Gt(nav, ma5) THEN <<"STRONG_BULL", 3>> ELSE <<"BULL", 2>>
    ELSE IF Gt(ma5, ma10)
    THEN <<"WEAK_BULL", 1>>
    ELSE IF Lt(ma5, ma10) /\ Lt(ma10, ma20)
    THEN IF Lt(nav, ma5) THEN <<"STRONG_BEAR", -3>> ELSE <<"BEAR", -2>>
    ELSE IF Lt(ma5, ma10)
    THEN <<"WEAK_BEAR", -1>>
    ELSE <<"CONSOLIDATION", 0>>

\* _analyze_trend
AnalyzeTrend(latest, r) ==
    LET t == TrendOf(latest.MA5, latest.MA10, latest.MA20, latest.nav)
    IN  [r EXCEPT !.current_nav = latest.nav,
                  !.ma5 = latest.MA5, !.ma10 = latest.MA10,
                  !.ma20 = latest.MA20, !.ma60 = latest.MA60,
                  !.trend_status = t[1], !.trend_strength = t[2]]

\* (nav - ma) / ma * 100, lines 249 and 252
PercentFrom(nav, ma) ==
    <<(nav[1] * ma[2] - ma[1] * nav[2]) * 100, nav[2] * ma[1]>>

\* lines 255-264; the texts are named: above 10 "chase_high", above 5
\* "deviated_wait", above 0 "near_ma", then "buy_window", else "deep_pullback"
PullbackStatus(pb) ==
    IF Gt(pb, Frac(CHASE_HIGH_THRESHOLD)) THEN "chase_high"
    ELSE IF Gt(pb, Frac(5)) THEN "deviated_wait"
    ELSE IF Gt(pb, Frac(0)) THEN "near_ma"
    ELSE IF Gt(pb, Frac(PULLBACK_BUY_THRESHOLD)) THEN "buy_window"
    ELSE "deep_pullback"

\* _analyze_pullback
AnalyzePullback(r) ==
    LET pb5 == IF Gt(r.ma5, Frac(0))
               THEN PercentFrom(r.current_nav, r.ma5) ELSE r.pullback_from_ma5
        pb20 == IF Gt(r.ma20, Frac(0))
                THEN PercentFrom(r.current_nav, r.ma20) ELSE r.pullback_from_ma20
    IN  [r EXCEPT !.pullback_from_ma5 = pb5, !.pullback_from_ma20 = pb20,
                  !.pullback_status = PullbackStatus(pb5)]

\* lines 174-179
WithPerformance(r, perf) ==
    IF ~perf.present THEN r
    ELSE [r EXCEPT !.month_1_return = perf.month_1,
                   !.year_1_return = perf.year_1]

\* the running score, reasons and risks of _generate_signal
Scored(acc, points) == [acc EXCEPT !.score = @ + points]

Reason(acc, points, text) ==
    [Scored(acc, points) EXCEPT !.reasons = Append(@, text)]

Risk(acc, points, text) ==
    [Scored(acc, points) EXCEPT !.risks = Append(@, text)]

\* mutant of TrendFactor: the final else tests for CONSOLIDATION
TrendFactorConsolidationOnly(acc, r) ==
    IF r.trend_status \in {"STRONG_BULL", "BULL"} THEN Reason(acc, 2, "trend_up")
    ELSE IF r.trend_status = "WEAK_BULL" THEN Reason(acc, 1, "weak_bull")
    ELSE IF r.trend_status \in {"BEAR", "STRONG_BEAR"}
    THEN Risk(acc, -2, "trend_down")
    ELSE IF r.trend_status = "CONSOLIDATION" THEN Reason(acc, 0, "consolidation")
    ELSE acc

\* lines 280-290
TrendFactor(acc, r) ==
    IF r.trend_status \in {"STRONG_BULL", "BULL"} THEN Reason(acc, 2, "trend_up")
    ELSE IF r.trend_status = "WEAK_BULL" THEN Reason(acc, 1, "weak_bull")
    ELSE IF r.trend_status \in {"BEAR", "STRONG_BEAR"}
    THEN Risk(acc, -2, "trend_down")
    ELSE Reason(acc, 0, "consolidation")

\* lines 293-304
PullbackFactor(acc, r) ==
    LET pb == r.pullback_from_ma5
    IN  IF Le(Frac(PULLBACK_BUY_THRESHOLD), pb) /\ Le(pb, Frac(0))
        THEN Reason(acc, 2, "buy_zone")
        ELSE IF Lt(Frac(0), pb) /\ Le(pb, Frac(3))
        THEN Reason(acc, 1, "near_support")
        ELSE IF Gt(pb, Frac(CHASE_HIGH_THRESHOLD))
        THEN Risk(acc, -2, "no_chasing")
        ELSE IF Gt(pb, Frac(5))
        THEN Risk(acc, -1, "deviated")
        ELSE acc

\* mutant of AnnualFactor: a negative year costs 2 points, as the docstring
\* of _generate_signal has it
AnnualFactorDocstring(acc, r) ==
    IF r.year_1_return > 20 THEN Reason(acc, 2, "annual_excellent")
    ELSE IF r.year_1_return > 10 THEN Reason(acc, 1, "annual_good")
    ELSE IF r.year_1_return < 0 THEN Risk(acc, -2, "annual_negative")
    ELSE acc

\* lines 307-315
AnnualFactor(acc, r) ==
    IF r.year_1_return > 20 THEN Reason(acc, 2, "annual_excellent")
    ELSE IF r.year_1_return > 10 THEN Reason(acc, 1, "annual_good")
    ELSE IF r.year_1_return < 0 THEN Risk(acc, -1, "annual_negative")
    ELSE acc

\* lines 318-320
OverheatFactor(acc, r) ==
    IF r.month_1_return > 15 THEN Risk(acc, -1, "month_overheated") ELSE acc

\* lines 327-338
TierOf(score) ==
    IF score >= 4 THEN "STRONG_BUY"
    ELSE IF score >= 2 THEN "BUY"
    ELSE IF score >= 0 THEN "HOLD"
    ELSE IF score >= -2 THEN "WAIT"
    ELSE IF score >= -4 THEN "SELL"
    ELSE "STRONG_SELL"

\* _generate_signal
GenerateSignal(r) ==
    LET a0 == [score |-> 0, reasons |-> <<>>, risks |-> <<>>]
        a1 == TrendFactor(a0, r)
        a2 == PullbackFactor(a1, r)
        a3 == AnnualFactor(a2, r)
        a4 == OverheatFactor(a3, r)
    IN  [r EXCEPT !.signal_score = a4.score,
                  !.signal_reasons = a4.reasons,
                  !.risk_factors = a4.risks,
                  !.buy_signal = TierOf(a4.score)]

\* _generate_operation_advice; the stop level is ma20 * 0.92, kept as a
\* fraction
GenerateOperationAdvice(r) ==
    LET buying == r.buy_signal \in {"STRONG_BUY", "BUY"}
    IN  [r EXCEPT
          !.entry_timing =
              IF buying
              THEN IF Lt(r.pullback_from_ma5, Frac(0))
                   THEN "buy_now" ELSE "wait_for_ma5"
              ELSE IF r.buy_signal = "HOLD" THEN "hold_and_watch"
              ELSE "do_not_buy",
          !.stop_loss =
              IF Gt(r.ma20, Frac(0))
              THEN <<r.ma20[1] * 92, r.ma20[2] * 100>> ELSE r.stop_loss,
          !.target_return =
              IF buying
              THEN IF r.year_1_return > 15 THEN "15_to_25" ELSE "10_to_15"
              ELSE "no_target"]

\* analyze, lines 154-187; navs is the nav column in date order (line 159
\* sorts the frame by date)
AnalyzeSeries(navs, perf) ==
    IF navs = <<>> THEN DefaultResult
    ELSE GenerateOperationAdvice(
           GenerateSignal(
             WithPerformance(
               AnalyzePullback(AnalyzeTrend(LatestRow(navs), DefaultResult)),
               perf)))

\* Bounds of the series handed to analyze: MaxLead values of one level, then
\* MaxMid values of a second level, then at most one latest value; or up to
\* MaxRamp values that change by the same step every day
MaxLead == 15
MaxMid == 6
MaxRamp == 61

LeadVals == {380, 400, 450}

MidVals == {390, 395, 397, 401, 403}

LastVals == {370, 388, 396, 412, 420, 440, 460}

Run(v, n) == [i \in 1..n |-> v]

RampStarts == {1000}

RampSteps == {-2, 1, 3}

Ramp(a, d, n) == [i \in 1..n |-> a + d * (i - 1)]

NavSeries ==
    {Run(b, l1) \o Run(m, l2) \o t :
        b \in LeadVals, l1 \in 0..MaxLead, m \in MidVals, l2 \in 0..MaxMid,
        t \in {<<>>} \cup {<<x>> : x \in LastVals}}
    \cup {Ramp(a, d, n) : a \in RampStarts, d \in RampSteps, n \in 1..MaxRamp}

\* the performance dict of get_fund_performance, or None (present is FALSE)
NoPerformance == [present |-> FALSE, year_1 |-> 0, month_1 |-> 0]

Performances ==
    {NoPerformance} \cup
    [present : {TRUE}, year_1 : {-1, 0, 10, 11, 20, 25}, month_1 : {5, 15, 16}]

\* the fleet is not running while one series is analysed
PipeIdle ==
    /\ fund_codes = <<>>
    /\ config = [stock_list |-> <<>>, single_stock_notify |-> FALSE]
    /\ max_workers = 1
    /\ dry_run = FALSE
    /\ send_notification = FALSE
    /\ runPc = "idle"
    /\ submitted = <<>>
    /\ task = <<>>
    /\ snapshot = {}
    /\ finished = <<>>
    /\ results = <<>>
    /\ report = <<>>
    /\ yielded = {}
    /\ nsummary = 0
    /\ retval = <<>>

\* no thread is inside get_fund_info
FtIdle ==
    /\ ak = [installed |-> TRUE, has_xf |-> TRUE, has_list |-> TRUE]
    /\ infoCall = <<>>
    /\ fund_list_df = 0
    /\ cacheReaders = {}
    /\ cacheWriters = {}

AnInit ==
    /\ df \in NavSeries
    /\ performance \in Performances
    /\ result = DefaultResult
    /\ anPc = "called"
    /\ PipeIdle
    /\ FtIdle

\* one call of analyze(df, code, name, performance)
AnalyzeCall ==
    /\ anPc = "called"
    /\ result' = AnalyzeSeries(df, performance)
    /\ anPc' = "returned"
    /\ UNCHANGED <<df, performance>>

AnNext == AnalyzeCall /\ UNCHANGED <<pipeVars, ftVars>>

AnalyzerSpec == AnInit /\ [][AnNext]_vars

\* the analyzer is not running while the fleet model runs
AnIdle ==
    /\ df = <<>>
    /\ performance = NoPerformance
    /\ result = DefaultResult
    /\ anPc = "idle"

Init == PipeInit /\ AnIdle /\ FtIdle

Next == PipeNext /\ UNCHANGED <<anVars, ftVars>>

Spec == Init /\ [][Next]_vars

\* what the thread pool and the calling thread keep doing: while a worker
\* thread can take or continue a call, or the calling thread can run on, one
\* of them does; nothing makes a hung provider call return
WorkerStep(i) ==
    \/ Start(i)
    \/ GetFundInfo(i)
    \/ GetFundNav(i)
    \/ GetFundPerformance(i)
    \/ Analyze(i)
    \/ SendSingleNotification(i)

Progress ==
    /\ \/ RunStart
       \/ AsCompleted
       \/ Collect
       \/ Finish
       \/ \E i \in 1..Len(task) : WorkerStep(i)
    /\ UNCHANGED <<anVars, ftVars>>

\* the fleet runs that reach the thread pool; the summary switch is read only
\* after every pipeline has ended
FairInit == Init /\ ~dry_run /\ ~send_notification

FairSpec == FairInit /\ [][Next]_vars /\ WF_vars(Progress)

----------------------------------------------------------------------------
(* FundDataFetcher.get_fund_info on the fetcher the worker threads share *)

\* self._fund_list_df is 0 while it is None, else the number of the thread
\* whose provider call produced the list it holds
NewInfoCall == [pc |-> "start", used |-> 0, ret |-> "pending"]

\* FundAnalysisPipeline.__init__ makes one FundDataFetcher (line 33), whose
\* cache starts as None (fund_fetcher.py line 35); up to max_workers threads
\* are inside get_fund_info at once
FtInit ==
    /\ ak \in [installed : BOOLEAN, has_xf : BOOLEAN, has_list : BOOLEAN]
    /\ max_workers \in 1..MaxWorkersBound
    /\ infoCall = [i \in 1..max_workers |-> NewInfoCall]
    /\ fund_list_df = 0
    /\ cacheReaders = {}
    /\ cacheWriters = {}
    /\ fund_codes = <<>>
    /\ config = [stock_list |-> <<>>, single_stock_notify |-> FALSE]
    /\ dry_run = FALSE
    /\ send_notification = FALSE
    /\ runPc = "idle"
    /\ submitted = <<>>
    /\ task = <<>>
    /\ snapshot = {}
    /\ finished = <<>>
    /\ results = <<>>
    /\ report = <<>>
    /\ yielded = {}
    /\ nsummary = 0
    /\ retval = <<>>
    /\ AnIdle

Returns(c, value) == [c EXCEPT !.pc = "returned", !.ret = value]

\* lines 48-70: the detailed interface answers, or the call falls back to the
\* list of all funds
PrimaryInfo(i) ==
    /\ infoCall[i].pc = "start"
    /\ IF ~ak.installed
       THEN infoCall' = [infoCall EXCEPT ![i] = Returns(@, "None")]
       ELSE IF ak.has_xf
       THEN \E out \in {"ok", "empty", "raise"} :
               infoCall' = [infoCall EXCEPT ![i] =
                               IF out = "ok" THEN Returns(@, "dict")
                               ELSE [@ EXCEPT !.pc = "check_cache"]]
       ELSE infoCall' = [infoCall EXCEPT ![i].pc = "check_cache"]
    /\ UNCHANGED <<ak, fund_list_df, cacheReaders, cacheWriters>>

\* line 73: if self._fund_list_df is None
CheckCache(i) ==
    /\ infoCall[i].pc = "check_cache"
    /\ cacheReaders' = cacheReaders \cup {i}
    /\ infoCall' = [infoCall EXCEPT ![i] =
                       IF fund_list_df # 0 THEN [@ EXCEPT !.pc = "lookup"]
                       ELSE IF ak.has_list THEN [@ EXCEPT !.pc = "load_list"]
                       ELSE Returns(@, "None")]
    /\ UNCHANGED <<ak, fund_list_df, cacheWriters>>

\* lines 74-84: the provider call, then the assignment of the cache
LoadList(i) ==
    /\ infoCall[i].pc = "load_list"
    /\ \E out \in {"list", "raise"} :
          IF out = "list"
          THEN /\ fund_list_df' = i
               /\ cacheWriters' = cacheWriters \cup {i}
               /\ infoCall' = [infoCall EXCEPT ![i].pc = "lookup"]
          ELSE /\ infoCall' = [infoCall EXCEPT ![i] = Returns(@, "None")]
               /\ UNCHANGED <<fund_list_df, cacheWriters>>
    /\ UNCHANGED <<ak, cacheReaders>>

\* lines 86-101: the fund is looked up in the list the cache holds now
Lookup(i) ==
    /\ infoCall[i].pc = "lookup"
    /\ cacheReaders' = cacheReaders \cup {i}
    /\ \E found \in BOOLEAN :
          infoCall' = [infoCall EXCEPT ![i] =
                          [Returns(@, IF found THEN "dict" ELSE "None")
                              EXCEPT !.used = fund_list_df]]
    /\ UNCHANGED <<ak, fund_list_df, cacheWriters>>

FtNext ==
    /\ \E i \in 1..Len(infoCall) :
          \/ PrimaryInfo(i)
          \/ CheckCache(i)
          \/ LoadList(i)
          \/ Lookup(i)
    /\ UNCHANGED <<pipeVars, anVars>>

FetcherSpec == FtInit /\ [][FtNext]_vars

----------------------------------------------------------------------------
(* Properties of the fleet run *)

NumSubmitted == Len(submitted)

\* the fund of the i-th submitted code failed: no metadata, no NAV series, or
\* an exception inside its pipeline
FundFailed(i) == task[i].fail # "none"

NumFailed == Cardinality({i \in 1..NumSubmitted : FundFailed(i)})

\* how many entries of the list rs belong to the i-th submitted code
Occurrences(rs, i) == Cardinality({k \in 1..Len(rs) : rs[k].idx = i})

\* C1: whenever run returns after submitting N codes of which M failed, it
\* returns exactly N - M results: one for each submitted occurrence of a code
\* whose pipeline did not fail, carrying that code, and none for a failed one;
\* and while the results are collected, every fund already handed to the loop
\* has its result in the list exactly when it did not fail.
C1_ReturnsTheSuccesses ==
    /\ \A i \in yielded :
          Occurrences(results, i) = IF FundFailed(i) THEN 0 ELSE 1
    /\ (runPc = "returned" /\ NumSubmitted > 0) =>
          /\ Len(retval) = NumSubmitted - NumFailed
          /\ \A i \in 1..NumSubmitted :
                Occurrences(retval, i) = IF FundFailed(i) THEN 0 ELSE 1
          /\ \A k \in 1..Len(retval) : retval[k].code = submitted[retval[k].idx]

\* C1 witness: a returned run over the same code submitted twice, in which one
\* pipeline failed and the other's result was returned
C1_Witness ==
    /\ runPc = "returned"
    /\ NumSubmitted = 2
    /\ submitted[1] = submitted[2]
    /\ NumFailed = 1
    /\ FundFailed(1)
    /\ Len(retval) = 1

\* C2 (as claimed): run never raises, whatever the collaborators do.
C2_RunNeverRaises == runPc # "raised"

\* C3: at every moment the number of pipelines started and not yet terminated
\* is at most max_workers.
C3_InFlightBounded == NumInFlight <= max_workers

\* C3 witness: every worker is busy while a submitted code still waits
C3_Witness ==
    /\ NumInFlight = max_workers
    /\ \E i \in 1..Len(task) : task[i].pc = "queued"

NumHung == Cardinality({i \in 1..Len(task) : task[i].pc = "hung"})

Settled(i) ==
    /\ i \in 1..Len(task)
    /\ Terminated(task[i]) \/ task[i].pc = "hung"

\* C5 (as claimed): with one fetch call that never returns, and any
\* max_workers >= 1, every other submitted pipeline eventually reaches done or
\* failed.
C5_OthersTerminate ==
    \A i \in 1..MaxFunds :
        (i \in 1..Len(task)) ~> (Settled(i) \/ NumHung > 1)

\* C5 (amended): as long as fewer than max_workers fetch calls hang, every
\* other submitted pipeline eventually reaches done or failed.
C5_OthersTerminateWithSpareWorker ==
    \A i \in 1..MaxFunds :
        (i \in 1..Len(task)) ~> (Settled(i) \/ NumHung >= max_workers)

\* C5 witness: one fetch hangs, a second worker exists, and the other
\* pipeline has terminated
C5_Witness ==
    /\ max_workers = 2
    /\ Len(task) = 2
    /\ task[1].pc = "hung"
    /\ Terminated(task[2])

\* the order the claim gives the blocks: score descending, equal scores in
\* the order of submission
SubmissionStable(blocks) ==
    \A k, l \in 1..Len(blocks) :
        k < l =>
            \/ blocks[k].signal_score > blocks[l].signal_score
            \/ /\ blocks[k].signal_score = blocks[l].signal_score
               /\ blocks[k].idx < blocks[l].idx

\* C4 (as claimed): the blocks of the combined report are in signal_score
\* descending order, funds of equal score in the order their codes were
\* submitted, for every completion order.
C4_ReportOrderDeterministic == nsummary > 0 => SubmissionStable(report)

\* C6: each pipeline calls its stages only in the order get_fund_info,
\* get_fund_nav, get_fund_performance, analyze, send; with no metadata nothing
\* follows get_fund_info; with no NAV series nothing follows get_fund_nav; and
\* send is called only after analyze, and only in single-fund mode.
StageOrder == <<"get_fund_info", "get_fund_nav", "get_fund_performance",
                "analyze", "send">>

IsPrefix(s, t) == Len(s) <= Len(t) /\ s = SubSeq(t, 1, Len(s))

C6_StagesInOrder ==
    \A i \in 1..Len(task) :
        /\ IsPrefix(task[i].calls, StageOrder)
        /\ task[i].fail = "no_info" => task[i].calls = SubSeq(StageOrder, 1, 1)
        /\ task[i].fail = "no_nav" => task[i].calls = SubSeq(StageOrder, 1, 2)
        /\ Len(task[i].calls) = 5 => config.single_stock_notify
        /\ task[i].pc = "done" =>
              /\ task[i].result # NoResult
              /\ Len(task[i].calls) = IF config.single_stock_notify THEN 5 ELSE 4
        /\ task[i].pc = "failed" => task[i].result = NoResult

\* C6 witness: one pipeline stopped at the empty NAV series, another went
\* through every stage and sent its notification
C6_Witness ==
    \E i, j \in 1..Len(task) :
        /\ task[i].fail = "no_nav" /\ task[i].pc = "failed"
        /\ task[j].pc = "done" /\ task[j].calls = StageOrder

----------------------------------------------------------------------------
(* Properties of analyze *)

\* analyze has returned the result of a series that is not empty
Analysed == anPc = "returned" /\ df # <<>>

Eq(a, b) == a[1] * b[2] = b[1] * a[2]

StrengthOf(status) ==
    CASE status = "STRONG_BULL" -> 3
      [] status = "BULL" -> 2
      [] status = "WEAK_BULL" -> 1
      [] status = "CONSOLIDATION" -> 0
      [] status = "WEAK_BEAR" -> -1
      [] status = "BEAR" -> -2
      [] status = "STRONG_BEAR" -> -3

\* C7: every analysed series gets exactly the trend state the decision order
\* gives for its (ma5, ma10, ma20, current_nav), with that state's strength:
\* ma5 > ma10 > ma20 is STRONG_BULL when nav > ma5 and BULL otherwise; else
\* ma5 > ma10 is WEAK_BULL; else ma5 < ma10 < ma20 is STRONG_BEAR when
\* nav < ma5 and BEAR otherwise; else ma5 < ma10 is WEAK_BEAR; and
\* ma5 = ma10 is CONSOLIDATION.
C7_TrendDecisionOrder ==
    Analysed =>
        LET m5 == result.ma5
            m10 == result.ma10
            m20 == result.ma20
            nav == result.current_nav
            st == result.trend_status
        IN  /\ st \in {"STRONG_BULL", "BULL", "WEAK_BULL", "CONSOLIDATION",
                       "WEAK_BEAR", "BEAR", "STRONG_BEAR"}
            /\ result.trend_strength = StrengthOf(st)
            /\ st = "STRONG_BULL" <=> Gt(m5, m10) /\ Gt(m10, m20) /\ Gt(nav, m5)
            /\ st = "BULL" <=> Gt(m5, m10) /\ Gt(m10, m20) /\ Le(nav, m5)
            /\ st = "WEAK_BULL" <=> Gt(m5, m10) /\ Le(m10, m20)
            /\ st = "STRONG_BEAR" <=> Lt(m5, m10) /\ Lt(m10, m20) /\ Lt(nav, m5)
            /\ st = "BEAR" <=> Lt(m5, m10) /\ Lt(m10, m20) /\ Ge(nav, m5)
            /\ st = "WEAK_BEAR" <=> Lt(m5, m10) /\ Ge(m10, m20)
            /\ st = "CONSOLIDATION" <=> Eq(m5, m10)

\* C7 witness: rising averages with the current nav exactly on ma5, which is
\* BULL and not STRONG_BULL
C7_Witness ==
    /\ Analysed
    /\ Gt(result.ma5, result.ma10) /\ Gt(result.ma10, result.ma20)
    /\ Eq(result.current_nav, result.ma5)
    /\ result.trend_status = "BULL"

\* the posture the threshold table of the claim gives a pullback
PostureOf(pb) ==
    IF Gt(pb, Frac(10)) THEN "chase_high"
    ELSE IF Gt(pb, Frac(5)) THEN "deviated_wait"
    ELSE IF Gt(pb, Frac(0)) THEN "near_ma"
    ELSE IF Ge(pb, Frac(-3)) THEN "buy_window"
    ELSE "deep_pullback"

\* C8 (as claimed): the posture is the table on pullback_from_ma5: above 10
\* chase-high, (5, 10] deviated, (0, 5] near the average, [-3, 0] buy window,
\* below -3 deep pullback; -3.0 exactly is buy window, 10.0 exactly deviated.
C8_PostureTable ==
    Analysed => result.pullback_status = PostureOf(result.pullback_from_ma5)

\* the points the claim gives each factor
TrendPoints(r) ==
    CASE r.trend_status \in {"STRONG_BULL", "BULL"} -> 2
      [] r.trend_status = "WEAK_BULL" -> 1
      [] r.trend_status \in {"BEAR", "STRONG_BEAR"} -> -2
      [] r.trend_status \in {"CONSOLIDATION", "WEAK_BEAR"} -> 0

PullbackPoints(r) ==
    LET pb == r.pullback_from_ma5
    IN  CASE Ge(pb, Frac(-3)) /\ Le(pb, Frac(0)) -> 2
          [] Gt(pb, Frac(0)) /\ Le(pb, Frac(3)) -> 1
          [] Gt(pb, Frac(10)) -> -2
          [] Gt(pb, Frac(5)) /\ Le(pb, Frac(10)) -> -1
          [] OTHER -> 0

AnnualPoints(r) ==
    CASE r.year_1_return > 20 -> 2
      [] r.year_1_return > 10 /\ r.year_1_return <= 20 -> 1
      [] r.year_1_return < 0 -> -1
      [] OTHER -> 0

OverheatPoints(r) == IF r.month_1_return > 15 THEN -1 ELSE 0

OtherReasons == {"buy_zone", "near_support", "annual_excellent", "annual_good"}

OtherRisks == {"no_chasing", "deviated", "annual_negative", "month_overheated"}

BandOf(score) ==
    CASE score >= 4 -> "STRONG_BUY"
      [] score \in 2..3 -> "BUY"
      [] score \in 0..1 -> "HOLD"
      [] score \in -2..-1 -> "WAIT"
      [] score \in -4..-3 -> "SELL"
      [] score <= -5 -> "STRONG_SELL"

\* C11 (as claimed): every result analyze returns carries the recommendation
\* tier of the band that holds its signal_score (>= 4 STRONG_BUY, 2..3 BUY,
\* 0..1 HOLD, -2..-1 WAIT, -4..-3 SELL, <= -5 STRONG_SELL).
C11_TierOfTheBand ==
    anPc = "returned" => result.buy_signal = BandOf(result.signal_score)

\* C12 (as claimed): analyze ends with InsufficientDataError exactly when the
\* series is empty; an empty series gives no result, and every series that is
\* not empty gives a result.
C12_EmptySeriesRaises ==
    anPc # "called" => (anPc = "raised" <=> df = <<>>)

----------------------------------------------------------------------------
(* Properties of the shared fetcher *)

\* C13 (as claimed): the per-fund pipelines share no mutable state: nothing
\* that one pipeline writes is read or written by another pipeline.
C13_NoSharedMutableState ==
    \A i \in cacheWriters : \A j \in cacheReaders \cup cacheWriters : j = i

----------------------------------------------------------------------------
(* Notifications of the fleet run *)

SentSingle(i) == "send" \in Range(task[i].calls)

\* C14: the summary is sent at most once per run; when it is sent every
\* submitted pipeline has ended (done or failed), the run is not a dry run,
\* send_notification is true and single-fund mode is off, so no fund has had
\* a single-fund notification; and it holds only results of this run.
C14_SummaryOnceAfterAll ==
    /\ nsummary <= 1
    /\ nsummary > 0 =>
          /\ ~dry_run
          /\ send_notification
          /\ ~config.single_stock_notify
          /\ \A i \in 1..Len(task) : Terminated(task[i]) /\ ~SentSingle(i)
          /\ \A k \in 1..Len(report) : report[k] = task[report[k].idx].result
    /\ \A i \in 1..Len(task) : SentSingle(i) => nsummary = 0

\* C14 witness: the summary was sent once, after two pipelines ended, one of
\* them without a result
C14_Witness ==
    /\ nsummary = 1
    /\ NumSubmitted = 2
    /\ NumFailed = 1
    /\ Len(report) = 1
    /\ runPc = "returned"

\* the send of the i-th pipeline's notification raised
SendRaised(i) == task[i].fail = "exception" /\ SentSingle(i)

\* C16: in single-fund mode a fund whose stages all succeeded but whose send
\* raised has no result and is in neither the collected nor the returned
\* list, while every fund that did not fail is returned once.
C16_FailedSendDropsFund ==
    \A i \in 1..Len(task) :
        SendRaised(i) =>
            /\ config.single_stock_notify
            /\ task[i].calls = StageOrder
            /\ task[i].pc = "failed"
            /\ task[i].result = NoResult
            /\ Occurrences(results, i) = 0
            /\ runPc = "returned" =>
                  /\ Occurrences(retval, i) = 0
                  /\ \A j \in 1..Len(task) :
                        ~FundFailed(j) => Occurrences(retval, j) = 1

\* C16 witness: the first fund's send raised, the second fund's did not, and
\* run returned the second fund's result alone
C16_Witness ==
    /\ runPc = "returned"
    /\ Len(task) = 2
    /\ SendRaised(1)
    /\ task[2].pc = "done"
    /\ retval = <<task[2].result>>

----------------------------------------------------------------------------
(* Moving averages and the reach of the score *)

\* the sum of the last m values of a series, taken from its end
RECURSIVE SumOfLast(_, _)
SumOfLast(s, m) ==
    IF m = 0 THEN 0
    ELSE s[Len(s)] + SumOfLast(SubSeq(s, 1, Len(s) - 1), m - 1)

Min(a, b) == IF a < b THEN a ELSE b

\* ma is the arithmetic mean of the last min(k, n) values of the series
IsTrailingMean(ma, k) ==
    ma[1] * Min(k, Len(df)) = SumOfLast(df, Min(k, Len(df))) * ma[2]

\* the series rises by the same positive step every day
RisesByConstantStep(s) ==
    /\ Len(s) >= 2
    /\ s[2] > s[1]
    /\ \A i \in 2..Len(s) : s[i] - s[i - 1] = s[2] - s[1]

\* C15: for a series of n >= 1 values each stored moving average of window
\* k in {5, 10, 20, 60} is the arithmetic mean of the last min(k, n) values
\* and current_nav is the last value; a series rising by a constant step for
\* 60 days has ma5 > ma10 > ma20 and current_nav > ma5, and is STRONG_BULL
\* with strength 3.
C15_TrailingMeans ==
    Analysed =>
        /\ IsTrailingMean(result.ma5, 5)
        /\ IsTrailingMean(result.ma10, 10)
        /\ IsTrailingMean(result.ma20, 20)
        /\ IsTrailingMean(result.ma60, 60)
        /\ result.current_nav = Frac(df[Len(df)])
        /\ (Len(df) = 60 /\ RisesByConstantStep(df)) =>
              /\ Gt(result.ma5, result.ma10)
              /\ Gt(result.ma10, result.ma20)
              /\ Gt(result.current_nav, result.ma5)
              /\ result.trend_status = "STRONG_BULL"
              /\ result.trend_strength = 3

\* C15 witness: 60 days rising by one thousandth a day, analysed as
\* STRONG_BULL
C15_Witness ==
    /\ Analysed
    /\ Len(df) = 60
    /\ RisesByConstantStep(df)
    /\ df[2] - df[1] = 1
    /\ result.trend_status = "STRONG_BULL"

\* C17: for a series of positive values, STRONG_SELL comes only with BEAR and
\* a pullback_from_ma5 above 5; a STRONG_BEAR fund is below ma5, gets no
\* negative pullback factor and scores at least -4; a STRONG_BULL fund never
\* gets the buy-zone factor; and signal_score is always within -6..6.
C17_ScoreReach ==
    Analysed =>
        /\ result.signal_score \in -6..6
        /\ result.buy_signal = "STRONG_SELL" =>
              /\ result.trend_status = "BEAR"
              /\ Gt(result.pullback_from_ma5, Frac(5))
        /\ result.trend_status = "STRONG_BEAR" =>
              /\ Lt(result.pullback_from_ma5, Frac(0))
              /\ PullbackPoints(result) >= 0
              /\ result.signal_score >= -4
        /\ result.trend_status = "STRONG_BULL" =>
              /\ PullbackPoints(result) # 2
              /\ "buy_zone" \notin Range(result.signal_reasons)

\* C17 witness: a BEAR fund far above ma5 with a negative year and a hot
\* month scores -6 and is STRONG_SELL
C17_Witness ==
    /\ Analysed
    /\ result.trend_status = "BEAR"
    /\ result.signal_score = -6
    /\ result.buy_signal = "STRONG_SELL"

\* C18: a series of at most 5 values has ma5 = ma10 = ma20 and is
\* CONSOLIDATION whatever its values; a series of 6 to 10 values has
\* ma10 = ma20 and is WEAK_BULL, WEAK_BEAR or CONSOLIDATION only.
C18_ShortSeriesTrend ==
    Analysed =>
        /\ Len(df) <= 5 =>
              /\ Eq(result.ma5, result.ma10)
              /\ Eq(result.ma10, result.ma20)
              /\ result.trend_status = "CONSOLIDATION"
        /\ Len(df) \in 6..10 =>
              /\ Eq(result.ma10, result.ma20)
              /\ result.trend_status \in
                    {"WEAK_BULL", "WEAK_BEAR", "CONSOLIDATION"}

\* C18 witness: a series of 6 to 10 values whose last five lie above the
\* mean of all is WEAK_BULL, although its averages would rise in order with
\* full windows
C18_Witness ==
    /\ Analysed
    /\ Len(df) \in 6..10
    /\ RisesByConstantStep(df)
    /\ result.trend_status = "WEAK_BULL"

====
